---- MODULE Spec2Model ----
\* GaussianCDF curve-function plugin (photons/nlf/user/GaussianCDF):
\* four exported C entry points called by a curve-fitting host through
\* caller-supplied buffers.  The model holds the host's buffers, the
\* position of each host thread inside an invocation, and a small
\* IEEE-754-like arithmetic in which the formula is evaluated.
EXTENDS Integers, Sequences, FiniteSets, TLC

\* ---------------------------------------------------------------- bounds
\* Doubles are modelled as sign/class/magnitude with the magnitude of a finite
\* value counted in units of 2^-FracBits; magnitudes above MaxMag overflow to
\* infinity as values above DBL_MAX do.
FracBits == 10
MaxMag == 30000
\* Host arrays are allocated with lengths up to MaxExtra away from the
\* declared counts.
MaxExtra == 1

RECURSIVE Pow2(_)
Pow2(n) == IF n = 0 THEN 1 ELSE 2 * Pow2(n - 1)

Scale == Pow2(FracBits)

\* The host threads that may call into the module, and the one that does when
\* the host is single-threaded.
Threads == {1, 2}
SeqThreads == {1}

\* ------------------------------------------------------------ arithmetic
NaN == [cls |-> "nan", neg |-> FALSE, mag |-> 0]
Inf(neg) == [cls |-> "inf", neg |-> neg, mag |-> 0]
Fin(neg, m) == [cls |-> "fin", neg |-> neg, mag |-> m]
PInf == Inf(FALSE)
NInf == Inf(TRUE)
Zero == Fin(FALSE, 0)
NegZero == Fin(TRUE, 0)
Half == Fin(FALSE, Scale \div 2)
One == Fin(FALSE, Scale)
Two == Fin(FALSE, 2 * Scale)

IsNaN(a) == a.cls = "nan"
IsInf(a) == a.cls = "inf"
IsFinite(a) == a.cls = "fin"
IsZero(a) == a.cls = "fin" /\ a.mag = 0

\* A finite result, or infinity when it exceeds the largest finite value.
Mk(neg, m) == IF m > MaxMag THEN Inf(neg) ELSE Fin(neg, m)

\* num/den rounded to nearest, ties to even.
RoundDiv(num, den) ==
    LET q == num \div den
        r == num % den
    IN  IF 2 * r > den \/ (2 * r = den /\ q % 2 = 1) THEN q + 1 ELSE q

Signed(a) == IF a.neg THEN 0 - a.mag ELSE a.mag

FNeg(a) == IF IsNaN(a) THEN NaN ELSE [a EXCEPT !.neg = ~a.neg]

FAdd(a, b) ==
    IF IsNaN(a) \/ IsNaN(b) THEN NaN
    ELSE IF IsInf(a) /\ IsInf(b) THEN (IF a.neg = b.neg THEN a ELSE NaN)
    ELSE IF IsInf(a) THEN a
    ELSE IF IsInf(b) THEN b
    ELSE LET s == Signed(a) + Signed(b)
         IN  IF s = 0 THEN Fin(a.neg /\ b.neg, 0)
             ELSE IF s < 0 THEN Mk(TRUE, 0 - s)
             ELSE Mk(FALSE, s)

FSub(a, b) == FAdd(a, FNeg(b))

FMul(a, b) ==
    IF IsNaN(a) \/ IsNaN(b) THEN NaN
    ELSE IF (IsInf(a) /\ IsZero(b)) \/ (IsZero(a) /\ IsInf(b)) THEN NaN
    ELSE IF IsInf(a) \/ IsInf(b) THEN Inf(a.neg # b.neg)
    ELSE Mk(a.neg # b.neg, RoundDiv(a.mag * b.mag, Scale))

FDiv(a, b) ==
    IF IsNaN(a) \/ IsNaN(b) THEN NaN
    ELSE IF IsInf(a) /\ IsInf(b) THEN NaN
    ELSE IF IsInf(a) THEN Inf(a.neg # b.neg)
    ELSE IF IsInf(b) THEN Fin(a.neg # b.neg, 0)
    ELSE IF IsZero(b) THEN (IF IsZero(a) THEN NaN ELSE Inf(a.neg # b.neg))
    ELSE Mk(a.neg # b.neg, RoundDiv(a.mag * Scale, b.mag))

\* C's == on doubles: NaN equals nothing, +0 equals -0.
FEq(a, b) ==
    /\ ~IsNaN(a)
    /\ ~IsNaN(b)
    /\ \/ a = b
       \/ IsZero(a) /\ IsZero(b)

RECURSIVE IsqrtIn(_, _, _)
IsqrtIn(lo, hi, v) ==
    IF lo >= hi THEN lo
    ELSE LET mid == (lo + hi + 1) \div 2
         IN  IF mid * mid <= v THEN IsqrtIn(mid, hi, v) ELSE IsqrtIn(lo, mid - 1, v)

\* sqrt, correctly rounded: the nearest magnitude r with r*r ~ m*Scale.
FSqrt(a) ==
    IF IsNaN(a) THEN NaN
    ELSE IF IsZero(a) THEN a
    ELSE IF a.neg THEN NaN
    ELSE IF IsInf(a) THEN a
    ELSE LET v == a.mag * Scale
             r == IsqrtIn(0, MaxMag, v)
         IN  Fin(FALSE, IF v - r * r > r THEN r + 1 ELSE r)

\* erf from <math.h>: odd, erf(+-0) = +-0, erf(+-inf) = +-1, NaN for NaN, and
\* 1 to working precision from 3.0 on.  erf(k/8) for k = 0..24, in units of
\* 10^-5:
ErfTable ==
    << 0, 14032, 27633, 40412, 52050, 62324, 71116, 78408, 84270, 88839,
       92290, 94817, 96611, 97844, 98667, 99199, 99532, 99735, 99854, 99922,
       99959, 99980, 99990, 99995, 99998 >>

\* erf of a finite magnitude below 3.0: the table, linearly interpolated.
ErfMag(m) ==
    LET step == Scale \div 8
        k == m \div step
        r == m % step
        lo == ErfTable[k + 1]
        hi == ErfTable[k + 2]
        v == lo + ((hi - lo) * r) \div step
    IN  RoundDiv(v * (Scale \div 8), 12500)

Erf(a) ==
    IF IsNaN(a) THEN NaN
    ELSE IF IsInf(a) THEN Fin(a.neg, Scale)
    ELSE IF IsZero(a) THEN a
    ELSE IF a.mag >= 3 * Scale THEN Fin(a.neg, Scale)
    ELSE Fin(a.neg, ErfMag(a.mag))

\* --------------------------------------------------------------- plugin
NameBufSize == 255
NumParameters == 4
NumVariables == 1

\* "f1: GaussianCDF f1=amplitude/2*(1+erf((x-mu)/(sigma*sqrt(2))))+offset"
FunctionName ==
    << 102, 49, 58, 32, 71, 97, 117, 115, 115, 105, 97, 110, 67, 68, 70, 32,
       102, 49, 61, 97, 109, 112, 108, 105, 116, 117, 100, 101, 47, 50, 42,
       40, 49, 43, 101, 114, 102, 40, 40, 120, 45, 109, 117, 41, 47, 40, 115,
       105, 103, 109, 97, 42, 115, 113, 114, 116, 40, 50, 41, 41, 41, 41, 43,
       111, 102, 102, 115, 101, 116 >>

\* A copy that leaves out the terminating zero.
StrcpyS_NoTerminator(destsz, src, debug) ==
    IF destsz = 0 THEN [err |-> "EINVAL", out |-> << >>]
    ELSE IF Len(src) + 1 > destsz THEN [err |-> "ERANGE", out |-> << 0 >>]
    ELSE [err |-> "ok",
          out |-> [i \in 1..(IF debug THEN destsz ELSE Len(src)) |->
                      IF i <= Len(src) THEN src[i] ELSE 254]]

\* strcpy_s(dest, destsz, src): the bytes it stores from dest[0] on and its
\* status.  A source that does not fit with its terminator stores only an
\* empty string and reports ERANGE; the debug runtime fills the rest of the
\* destsz bytes behind the terminator with 0xFE.
StrcpyS(destsz, src, debug) ==
    IF destsz = 0 THEN [err |-> "EINVAL", out |-> << >>]
    ELSE IF Len(src) + 1 > destsz THEN [err |-> "ERANGE", out |-> << 0 >>]
    ELSE [err |-> "ok",
          out |-> [i \in 1..(IF debug THEN destsz ELSE Len(src) + 1) |->
                      IF i <= Len(src) THEN src[i]
                      ELSE IF i = Len(src) + 1 THEN 0
                      ELSE 254]]

\* A quotient that is guarded against a zero sigma.
Quotient_Guarded(x0, mu, sigma) ==
    IF IsZero(sigma) THEN Zero ELSE FDiv(FSub(x0, mu), FMul(sigma, FSqrt(Two)))

\* The argument of erf: (x[0] - a[1]) / (a[2] * sqrt(2.0)).
Quotient(x0, mu, sigma) == FDiv(FSub(x0, mu), FMul(sigma, FSqrt(Two)))

\* The formula without its factor 0.5.
Value_NoHalf(amp, q, offset) == FAdd(FMul(amp, FAdd(One, Erf(q))), offset)

\* 0.5 * a[0] * (1.0 + erf(q)) + a[3], with q the argument of erf.
Value(amp, q, offset) == FAdd(FMul(FMul(Half, amp), FAdd(One, Erf(q))), offset)

GaussianCDF(x0, amp, mu, sigma, offset) == Value(amp, Quotient(x0, mu, sigma), offset)

\* ----------------------------------------------------------------- state
VARIABLES
    build,      \* "release" or "debug": which C runtime the module is linked to
    alive,      \* FALSE once the process has faulted
    pc,         \* per host thread: "idle" or the point reached inside a call
    lastOp,     \* per thread: the entry point of the current or latest call
    xbuf,       \* per thread: the array passed as x
    abuf,       \* per thread: the array passed as a
    ybuf,       \* per thread: the scalar location usually passed as y
    yarg,       \* per thread: what y points to in the call: "y", "x" (x[0]) or "a" (a[3])
    nbuf,       \* per thread: the two int locations passed as n
    told,       \* per thread: which of the int locations hold a reported count
    nameBuf,    \* per thread: the buffer passed as name; its length is its capacity
    spill,      \* per thread: bytes stored behind the end of nameBuf
    tmp,        \* the temporaries of GetFunctionValue, one slot per thread
    acc         \* per thread: the accesses of the current or latest call

vars == << build, alive, pc, lastOp, xbuf, abuf, ybuf, yarg, nbuf, told,
           nameBuf, spill, tmp, acc >>

Ops == {"GetFunctionName", "GetFunctionValue", "GetNumParameters", "GetNumVariables"}

\* What the host's locations hold before the plugin has written them.
Garbage == Fin(TRUE, 7)
GarbageDoubles == {One, NaN}

\* A temporary kept in one static location for all callers.
TmpLoc_Static(t) == 1

\* The temporary of thread t's call lives in t's own automatic storage.
TmpLoc(t) == t

\* The values a read of arr[i] (C index) can yield: the element, or anything
\* when the index is outside the array.
Load(arr, i) == IF i < Len(arr) THEN {arr[i + 1]} ELSE GarbageDoubles

Rd(t, obj, i) == << "r", << t, obj, i >> >>
Wr(t, obj, i) == << "w", << t, obj, i >> >>

\* An array of n elements: the given values first, then zeros.
MkArr(n, vals) == [i \in 1..n |-> IF i <= Len(vals) THEN vals[i] ELSE Zero]

\* bytes stored from the start of buf on: the part that fits, and the rest.
Fits(buf, bytes) == [i \in 1..Len(buf) |-> IF i <= Len(bytes) THEN bytes[i] ELSE buf[i]]
Past(buf, old, bytes) ==
    LET n == IF Len(bytes) > Len(buf) THEN Len(bytes) - Len(buf) ELSE 0
        m == IF Len(old) > n THEN Len(old) ELSE n
    IN  [i \in 1..m |-> IF i <= n THEN bytes[Len(buf) + i] ELSE old[i]]

\* ------------------------------------------------------------------ host
\* The host allocates a name buffer of some capacity (uninitialised heap).
HostAllocName(t, cap) ==
    /\ alive
    /\ pc[t] = "idle"
    /\ nameBuf' = [nameBuf EXCEPT ![t] = [i \in 1..cap |-> 205]]
    /\ spill' = [spill EXCEPT ![t] = << >>]
    /\ lastOp' = [lastOp EXCEPT ![t] = "none"]
    /\ acc' = [acc EXCEPT ![t] = {}]
    /\ UNCHANGED << build, alive, pc, xbuf, abuf, ybuf, yarg, nbuf, told, tmp >>

\* The host allocates x with lx elements and a with la elements, fills them
\* with x = 1, amplitude = 2, mu = 0, sigma = 1, offset = 1, and decides where
\* the y it will pass points: its own scalar, x[0] or a[3].
HostAlloc(t, lx, la, yl) ==
    /\ alive
    /\ pc[t] = "idle"
    /\ yl = "x" => lx >= 1
    /\ yl = "a" => la >= 4
    /\ xbuf' = [xbuf EXCEPT ![t] = MkArr(lx, << One >>)]
    /\ abuf' = [abuf EXCEPT ![t] = MkArr(la, << Two, Zero, One, One >>)]
    /\ ybuf' = [ybuf EXCEPT ![t] = Garbage]
    /\ yarg' = [yarg EXCEPT ![t] = yl]
    /\ tmp' = [tmp EXCEPT ![TmpLoc(t)] = Garbage]
    /\ lastOp' = [lastOp EXCEPT ![t] = "none"]
    /\ acc' = [acc EXCEPT ![t] = {}]
    /\ UNCHANGED << build, alive, pc, nbuf, told, nameBuf, spill >>

\* The host protocol: the lengths are the counts the plugin has reported.
HostAllocDeclared(t) ==
    /\ told[t] = {"par", "var"}
    /\ HostAlloc(t, nbuf[t].var, nbuf[t].par, "y")

\* A host that does not follow the protocol: any lengths.
HostAllocAny(t, lx, la, yl) == HostAlloc(t, lx, la, yl)

\* The protocol host sets one input of the next evaluation, x[0] (which = "x")
\* or a[i] (which = "a"), and clears the output.
HostStore(t, which, i, v) ==
    /\ alive
    /\ pc[t] = "idle"
    /\ told[t] = {"par", "var"}
    /\ Len(xbuf[t]) = nbuf[t].var
    /\ Len(abuf[t]) = nbuf[t].par
    /\ yarg[t] = "y"
    /\ i < (IF which = "x" THEN Len(xbuf[t]) ELSE Len(abuf[t]))
    /\ xbuf' = IF which = "x" THEN [xbuf EXCEPT ![t][i + 1] = v] ELSE xbuf
    /\ abuf' = IF which = "a" THEN [abuf EXCEPT ![t][i + 1] = v] ELSE abuf
    /\ ybuf' = [ybuf EXCEPT ![t] = Garbage]
    /\ tmp' = [tmp EXCEPT ![TmpLoc(t)] = Garbage]
    /\ lastOp' = [lastOp EXCEPT ![t] = "none"]
    /\ acc' = [acc EXCEPT ![t] = {}]
    /\ UNCHANGED << build, alive, pc, yarg, nbuf, told, nameBuf, spill >>

\* The host calls entry point op on buffers it has allocated; the call's
\* temporaries are not yet set.  A host whose y overlaps an input evaluates
\* once per filling of the arrays.
Call(t, op) ==
    /\ alive
    /\ pc[t] = "idle"
    /\ op = "GetFunctionName" => Len(nameBuf[t]) > 0
    /\ op = "GetFunctionValue" => Len(abuf[t]) > 0
    /\ (op = "GetFunctionValue" /\ yarg[t] # "y") => lastOp[t] = "none"
    /\ pc' = [pc EXCEPT ![t] = op]
    /\ lastOp' = [lastOp EXCEPT ![t] = op]
    /\ tmp' = [tmp EXCEPT ![TmpLoc(t)] = Garbage]
    /\ acc' = [acc EXCEPT ![t] = {}]
    /\ UNCHANGED << build, alive, xbuf, abuf, ybuf, yarg, nbuf, told, nameBuf, spill >>

\* ---------------------------------------------------------- entry points
\* void GetFunctionName(char* name): strcpy_s(name, 255, "f1: ...").  Stores
\* behind the end of a buffer shorter than what strcpy_s writes land in the
\* memory that follows it.
GetFunctionName(t) ==
    LET r == StrcpyS(NameBufSize, FunctionName, build = "debug")
    IN  /\ alive
        /\ pc[t] = "GetFunctionName"
        /\ r.err = "ok"
        /\ nameBuf' = [nameBuf EXCEPT ![t] = Fits(nameBuf[t], r.out)]
        /\ spill' = [spill EXCEPT ![t] = Past(nameBuf[t], spill[t], r.out)]
        /\ acc' = [acc EXCEPT ![t] = @ \cup {Wr(t, "name", Len(r.out))}]
        /\ pc' = [pc EXCEPT ![t] = "idle"]
        /\ UNCHANGED << build, alive, lastOp, xbuf, abuf, ybuf, yarg, nbuf, told, tmp >>

\* The other outcome of a store behind the end of the buffer, and the outcome
\* of strcpy_s's invalid-parameter handler: the process is terminated.
GetFunctionNameFault(t) ==
    LET r == StrcpyS(NameBufSize, FunctionName, build = "debug")
    IN  /\ alive
        /\ pc[t] = "GetFunctionName"
        /\ r.err # "ok" \/ Len(r.out) > Len(nameBuf[t])
        /\ alive' = FALSE
        /\ pc' = [pc EXCEPT ![t] = "fault"]
        /\ UNCHANGED << build, lastOp, xbuf, abuf, ybuf, yarg, nbuf, told,
                        nameBuf, spill, tmp, acc >>

\* void GetFunctionValue(double* x, double* a, double* y), first half: the
\* argument of erf is evaluated into a temporary.
GetFunctionValueQuotient(t) ==
    /\ alive
    /\ pc[t] = "GetFunctionValue"
    /\ \E x0 \in Load(xbuf[t], 0), mu \in Load(abuf[t], 1), sigma \in Load(abuf[t], 2) :
          tmp' = [tmp EXCEPT ![TmpLoc(t)] = Quotient(x0, mu, sigma)]
    /\ acc' = [acc EXCEPT ![t] = @ \cup {Rd(t, "x", 0), Rd(t, "a", 1), Rd(t, "a", 2),
                                          << "w", << TmpLoc(t), "tmp", 0 >> >>}]
    /\ pc' = [pc EXCEPT ![t] = "GetFunctionValueErf"]
    /\ UNCHANGED << build, alive, lastOp, xbuf, abuf, ybuf, yarg, nbuf, told, nameBuf, spill >>

\* Second half: erf of the temporary, the rest of the formula, the store to *y.
GetFunctionValueStore(t) ==
    /\ alive
    /\ pc[t] = "GetFunctionValueErf"
    /\ \E amp \in Load(abuf[t], 0), offset \in Load(abuf[t], 3) :
          LET y == Value(amp, tmp[TmpLoc(t)], offset)
          IN  /\ ybuf' = IF yarg[t] = "y" THEN [ybuf EXCEPT ![t] = y] ELSE ybuf
              /\ xbuf' = IF yarg[t] = "x" THEN [xbuf EXCEPT ![t][1] = y] ELSE xbuf
              /\ abuf' = IF yarg[t] = "a" THEN [abuf EXCEPT ![t][4] = y] ELSE abuf
    /\ acc' = [acc EXCEPT ![t] = @ \cup {Rd(t, "a", 0), Rd(t, "a", 3),
                                          << "r", << TmpLoc(t), "tmp", 0 >> >>,
                                          IF yarg[t] = "y" THEN Wr(t, "y", 0)
                                          ELSE IF yarg[t] = "x" THEN Wr(t, "x", 0)
                                          ELSE Wr(t, "a", 3)}]
    /\ pc' = [pc EXCEPT ![t] = "idle"]
    /\ UNCHANGED << build, alive, lastOp, yarg, nbuf, told, nameBuf, spill, tmp >>

\* The other outcome of a read outside x or a: the process is terminated.
GetFunctionValueFault(t) ==
    /\ alive
    /\ \/ pc[t] = "GetFunctionValue" /\ (Len(xbuf[t]) < 1 \/ Len(abuf[t]) < 3)
       \/ pc[t] = "GetFunctionValueErf" /\ Len(abuf[t]) < 4
    /\ alive' = FALSE
    /\ pc' = [pc EXCEPT ![t] = "fault"]
    /\ UNCHANGED << build, lastOp, xbuf, abuf, ybuf, yarg, nbuf, told,
                    nameBuf, spill, tmp, acc >>

\* A count taken from the array the host last passed.
GetNumParameters_FromArray(t) ==
    /\ alive
    /\ pc[t] = "GetNumParameters"
    /\ nbuf' = [nbuf EXCEPT ![t].par = Len(abuf[t])]
    /\ told' = [told EXCEPT ![t] = @ \cup {"par"}]
    /\ acc' = [acc EXCEPT ![t] = @ \cup {Wr(t, "n", 0)}]
    /\ pc' = [pc EXCEPT ![t] = "idle"]
    /\ UNCHANGED << build, alive, lastOp, xbuf, abuf, ybuf, yarg, nameBuf, spill, tmp >>

\* A count that forgets the offset.
GetNumParameters_OffByOne(t) ==
    /\ alive
    /\ pc[t] = "GetNumParameters"
    /\ nbuf' = [nbuf EXCEPT ![t].par = NumParameters - 1]
    /\ told' = [told EXCEPT ![t] = @ \cup {"par"}]
    /\ acc' = [acc EXCEPT ![t] = @ \cup {Wr(t, "n", 0)}]
    /\ pc' = [pc EXCEPT ![t] = "idle"]
    /\ UNCHANGED << build, alive, lastOp, xbuf, abuf, ybuf, yarg, nameBuf, spill, tmp >>

\* void GetNumParameters(int* n): *n = 4.
GetNumParameters(t) ==
    /\ alive
    /\ pc[t] = "GetNumParameters"
    /\ nbuf' = [nbuf EXCEPT ![t].par = NumParameters]
    /\ told' = [told EXCEPT ![t] = @ \cup {"par"}]
    /\ acc' = [acc EXCEPT ![t] = @ \cup {Wr(t, "n", 0)}]
    /\ pc' = [pc EXCEPT ![t] = "idle"]
    /\ UNCHANGED << build, alive, lastOp, xbuf, abuf, ybuf, yarg, nameBuf, spill, tmp >>

\* A count taken from the array the host last passed.
GetNumVariables_FromArray(t) ==
    /\ alive
    /\ pc[t] = "GetNumVariables"
    /\ nbuf' = [nbuf EXCEPT ![t].var = Len(xbuf[t])]
    /\ told' = [told EXCEPT ![t] = @ \cup {"var"}]
    /\ acc' = [acc EXCEPT ![t] = @ \cup {Wr(t, "n", 1)}]
    /\ pc' = [pc EXCEPT ![t] = "idle"]
    /\ UNCHANGED << build, alive, lastOp, xbuf, abuf, ybuf, yarg, nameBuf, spill, tmp >>

\* void GetNumVariables(int* n): *n = 1.
GetNumVariables(t) ==
    /\ alive
    /\ pc[t] = "GetNumVariables"
    /\ nbuf' = [nbuf EXCEPT ![t].var = NumVariables]
    /\ told' = [told EXCEPT ![t] = @ \cup {"var"}]
    /\ acc' = [acc EXCEPT ![t] = @ \cup {Wr(t, "n", 1)}]
    /\ pc' = [pc EXCEPT ![t] = "idle"]
    /\ UNCHANGED << build, alive, lastOp, xbuf, abuf, ybuf, yarg, nameBuf, spill, tmp >>

\* ------------------------------------------------------- any host at all
\* One host thread: buffers of any capacity and length, y anywhere, a few
\* input values.
NameCaps == {Len(FunctionName), NameBufSize}
XLens == (IF NumVariables > MaxExtra THEN NumVariables - MaxExtra ELSE 0)..(NumVariables + MaxExtra)
ALens == (IF NumParameters > MaxExtra THEN NumParameters - MaxExtra ELSE 0)..(NumParameters + MaxExtra)
FewX == {Zero, One}
FewA == << {Two}, {Zero}, {Zero, One}, {One} >>

Init ==
    /\ build \in {"release", "debug"}
    /\ alive = TRUE
    /\ pc = [t \in Threads |-> "idle"]
    /\ lastOp = [t \in Threads |-> "none"]
    /\ xbuf = [t \in Threads |-> << >>]
    /\ abuf = [t \in Threads |-> << >>]
    /\ ybuf = [t \in Threads |-> Garbage]
    /\ yarg = [t \in Threads |-> "y"]
    /\ nbuf = [t \in Threads |-> [par |-> 0, var |-> 0]]
    /\ told = [t \in Threads |-> {}]
    /\ nameBuf = [t \in Threads |-> << >>]
    /\ spill = [t \in Threads |-> << >>]
    /\ tmp = [t \in Threads |-> Garbage]
    /\ acc = [t \in Threads |-> {}]

Next ==
    \E t \in SeqThreads :
        \/ \E cap \in NameCaps : HostAllocName(t, cap)
        \/ \E lx \in XLens, la \in ALens, yl \in {"y", "x", "a"} : HostAllocAny(t, lx, la, yl)
        \/ HostAllocDeclared(t)
        \/ \E v \in FewX : HostStore(t, "x", 0, v)
        \/ \E i \in 0..(NumParameters - 1) : \E v \in FewA[i + 1] : HostStore(t, "a", i, v)
        \/ \E op \in Ops : Call(t, op)
        \/ GetFunctionName(t)
        \/ GetFunctionNameFault(t)
        \/ GetFunctionValueQuotient(t)
        \/ GetFunctionValueStore(t)
        \/ GetFunctionValueFault(t)
        \/ GetNumParameters(t)
        \/ GetNumVariables(t)

Spec == Init /\ [][Next]_vars

\* ------------------------------------------------- the protocol host
\* One host thread that has asked for the counts and allocated x, a and a
\* 255-byte name buffer accordingly, and evaluates the function over a grid
\* of ordinary and exceptional inputs.
XVals == {Fin(TRUE, Scale), Zero, One, PInf, NaN}
AmpVals == {Two, Fin(FALSE, 3), PInf}
MuVals == {NegZero, One, PInf}
SigmaVals == {Zero, NegZero, One, Fin(FALSE, 1), NaN}
OffsetVals == {One, NInf}
AVals == << AmpVals, MuVals, SigmaVals, OffsetVals >>

InitValue ==
    /\ build \in {"release", "debug"}
    /\ alive = TRUE
    /\ pc = [t \in Threads |-> "idle"]
    /\ lastOp = [t \in Threads |-> "none"]
    /\ xbuf = [t \in Threads |-> MkArr(NumVariables, << One >>)]
    /\ abuf = [t \in Threads |-> MkArr(NumParameters, << Two, Zero, One, One >>)]
    /\ ybuf = [t \in Threads |-> Garbage]
    /\ yarg = [t \in Threads |-> "y"]
    /\ nbuf = [t \in Threads |-> [par |-> NumParameters, var |-> NumVariables]]
    /\ told = [t \in Threads |-> {"par", "var"}]
    /\ nameBuf = [t \in Threads |-> [i \in 1..NameBufSize |-> 205]]
    /\ spill = [t \in Threads |-> << >>]
    /\ tmp = [t \in Threads |-> Garbage]
    /\ acc = [t \in Threads |-> {}]

NextValue ==
    \E t \in SeqThreads :
        \/ \E v \in XVals : HostStore(t, "x", 0, v)
        \/ \E i \in 0..(NumParameters - 1) : \E v \in AVals[i + 1] : HostStore(t, "a", i, v)
        \/ \E op \in Ops : Call(t, op)
        \/ GetFunctionName(t)
        \/ GetFunctionValueQuotient(t)
        \/ GetFunctionValueStore(t)
        \/ GetNumParameters(t)
        \/ GetNumVariables(t)

SpecValue == InitValue /\ [][NextValue]_vars

\* ---------------------------------------------------- concurrent callers
\* Two host threads, each with buffers of its own allocated by the protocol,
\* call the entry points at will; their steps interleave.
ConcX == {Zero, One}

InitConc ==
    /\ build \in {"release", "debug"}
    /\ alive = TRUE
    /\ pc = [t \in Threads |-> "idle"]
    /\ lastOp = [t \in Threads |-> "none"]
    /\ xbuf \in [Threads -> {MkArr(NumVariables, << v >>) : v \in ConcX}]
    /\ abuf = [t \in Threads |-> MkArr(NumParameters, << Two, Zero, One, One >>)]
    /\ ybuf = [t \in Threads |-> Garbage]
    /\ yarg = [t \in Threads |-> "y"]
    /\ nbuf = [t \in Threads |-> [par |-> 0, var |-> 0]]
    /\ told = [t \in Threads |-> {}]
    /\ nameBuf = [t \in Threads |-> [i \in 1..NameBufSize |-> 205]]
    /\ spill = [t \in Threads |-> << >>]
    /\ tmp = [t \in Threads |-> Garbage]
    /\ acc = [t \in Threads |-> {}]

NextConc ==
    \E t \in Threads :
        \/ \E op \in Ops : Call(t, op)
        \/ GetFunctionName(t)
        \/ GetFunctionValueQuotient(t)
        \/ GetFunctionValueStore(t)
        \/ GetNumParameters(t)
        \/ GetNumVariables(t)

SpecConc == InitConc /\ [][NextConc]_vars

\* ------------------------------------------------------------ properties
\* What the host reads back.
Returned(t, op) == pc[t] = "idle" /\ lastOp[t] = op

\* The C string that starts at the name pointer: the bytes up to the first zero.
CStr(bytes) ==
    LET zs == {k \in 1..Len(bytes) : bytes[k] = 0}
    IN  IF zs = {} THEN bytes
        ELSE SubSeq(bytes, 1, (CHOOSE k \in zs : \A j \in zs : k <= j) - 1)

NameRead(t) == CStr(nameBuf[t] \o spill[t])

IsDigit(c) == c >= 48 /\ c <= 57

\* ^f\d+:.* with the digits a positive integer.
MatchesPattern(s) ==
    /\ Len(s) >= 3
    /\ s[1] = 102
    /\ \E k \in 3..Len(s) :
          /\ s[k] = 58
          /\ \A i \in 2..(k - 1) : IsDigit(s[i])
          /\ \E i \in 2..(k - 1) : s[i] # 48

\* What a call reports besides what it stores through its pointer arguments:
\* every entry point returns void and takes no status argument, and the
\* errno_t of strcpy_s is dropped.
Status(t) == "none"

InCall(t) == pc[t] \in Ops \cup {"GetFunctionValueErf"}

\* The C indices of obj that thread t's current or latest call has read.
ReadIdx(t, obj) == {e[2][3] : e \in {d \in acc[t] : d[1] = "r" /\ d[2][2] = obj}}

\* The locations thread t's current or latest call has touched.
Locs(t) == {e[2] : e \in acc[t]}

\* The inputs of thread t's evaluation, when y does not overlap them.
EvalDone(t) ==
    /\ Returned(t, "GetFunctionValue")
    /\ yarg[t] = "y"
    /\ Len(xbuf[t]) >= 1
    /\ Len(abuf[t]) >= 4
X0(t) == xbuf[t][1]
Amp(t) == abuf[t][1]
Mu(t) == abuf[t][2]
Sigma(t) == abuf[t][3]
Offset(t) == abuf[t][4]

\* C1: after any sequence of calls, with any arguments, the value
\* GetNumParameters has just written to its output location is 4.
C1_NumParametersIsFour ==
    \A t \in Threads : Returned(t, "GetNumParameters") => nbuf[t].par = 4

C1_Witness ==
    \E t \in Threads :
        /\ Returned(t, "GetNumParameters")
        /\ nbuf[t].par = 4
        /\ nbuf[t].var = 1
        /\ Len(abuf[t]) # 4
        /\ ybuf[t] # Garbage
        /\ NameRead(t) = FunctionName

\* C2: after any sequence of calls, with any arguments, the value
\* GetNumVariables has just written to its output location is 1.
C2_NumVariablesIsOne ==
    \A t \in Threads : Returned(t, "GetNumVariables") => nbuf[t].var = 1

C2_Witness ==
    \E t \in Threads :
        /\ Returned(t, "GetNumVariables")
        /\ nbuf[t].var = 1
        /\ nbuf[t].par = 4
        /\ Len(xbuf[t]) # 1
        /\ ybuf[t] # Garbage
        /\ NameRead(t) = FunctionName

\* C3: whenever GetFunctionName has returned, the string at the name pointer
\* is the one fixed string; it is not empty, it is terminated, it starts
\* with f, one or more digits that form a positive integer, and a colon, and
\* with its terminator it is shorter than 255 bytes.
C3_NameIsFixedString ==
    \A t \in Threads :
        Returned(t, "GetFunctionName") =>
            /\ NameRead(t) = FunctionName
            /\ Len(NameRead(t)) > 0
            /\ Len(NameRead(t)) < Len(nameBuf[t] \o spill[t])
            /\ MatchesPattern(NameRead(t))
            /\ Len(NameRead(t)) + 1 < 255

C3_Witness ==
    \E t \in Threads :
        /\ Returned(t, "GetFunctionName")
        /\ Len(nameBuf[t]) = 255
        /\ build = "debug"
        /\ nameBuf[t][255] = 254
        /\ MatchesPattern(NameRead(t))

\* C4 as claimed: whenever x[0] equals a[1], y is exactly a[3] + a[0]/2, for
\* every amplitude, mu, sigma and offset.
C4_AtMuForEverySigma ==
    \A t \in Threads :
        (EvalDone(t) /\ FEq(X0(t), Mu(t))) =>
            ybuf[t] = FAdd(Offset(t), FDiv(Amp(t), Two))

\* C4 amended: whenever a finite x[0] equals a[1] and sigma is neither zero
\* nor NaN, y is exactly a[3] + a[0]/2.
C4_AtMu ==
    \A t \in Threads :
        (/\ EvalDone(t)
         /\ FEq(X0(t), Mu(t))
         /\ IsFinite(X0(t))
         /\ ~IsZero(Sigma(t))
         /\ ~IsNaN(Sigma(t))) =>
            ybuf[t] = FAdd(Offset(t), FDiv(Amp(t), Two))

C4_Witness ==
    \E t \in Threads :
        /\ EvalDone(t)
        /\ X0(t) = One
        /\ Mu(t) = One
        /\ Sigma(t) = Fin(FALSE, 1)
        /\ Amp(t) = Fin(FALSE, 3)
        /\ Offset(t) = One
        /\ ybuf[t] = Fin(FALSE, Scale + 2)

\* C5 as claimed: whenever sigma is 0.0, the value written to y is +Infinity,
\* -Infinity or NaN.
C5_ZeroSigmaGivesInfOrNaN ==
    \A t \in Threads :
        (EvalDone(t) /\ IsZero(Sigma(t))) => ybuf[t] \in {PInf, NInf, NaN}

\* C5 amended: whenever sigma is 0.0 the call is carried out unguarded: the
\* quotient (x[0]-a[1])/(sigma*sqrt(2)) is +Infinity, -Infinity or NaN, and
\* y is NaN when the quotient is NaN, and otherwise 0.5*a[0]*(1+1) + a[3]
\* (quotient +Infinity) or 0.5*a[0]*(1-1) + a[3] (quotient -Infinity), which
\* for a finite amplitude and offset is not NaN, and is a[3] itself in the
\* second case.
C5_ZeroSigma ==
    \A t \in Threads :
        (EvalDone(t) /\ IsZero(Sigma(t))) =>
            LET q == tmp[t]
                y == ybuf[t]
            IN  /\ q \in {PInf, NInf, NaN}
                /\ q = NaN => y = NaN
                /\ q = PInf => y = FAdd(FMul(FMul(Half, Amp(t)), Two), Offset(t))
                /\ q = NInf => y = FAdd(FMul(FMul(Half, Amp(t)), Zero), Offset(t))
                /\ (q = NInf /\ IsFinite(Amp(t)) /\ IsFinite(Offset(t))) => FEq(y, Offset(t))
                /\ (q = PInf /\ IsFinite(Amp(t)) /\ IsFinite(Offset(t))) => ~IsNaN(y)

C5_Witness ==
    \E t \in Threads :
        /\ EvalDone(t)
        /\ Sigma(t) = Zero
        /\ X0(t) = One
        /\ Mu(t) = NegZero
        /\ Amp(t) = Two
        /\ Offset(t) = One
        /\ tmp[t] = PInf
        /\ ybuf[t] = Fin(FALSE, 3 * Scale)

\* C6: with each thread calling on buffers of its own, under every
\* interleaving each call writes the result it writes when run alone, and no
\* call touches a location that another thread's call touches or that is not
\* its own thread's.
C6_ConcurrentCallsAreIsolated ==
    /\ \A t \in Threads :
          /\ Returned(t, "GetFunctionValue") =>
                ybuf[t] = GaussianCDF(X0(t), Amp(t), Mu(t), Sigma(t), Offset(t))
          /\ Returned(t, "GetNumParameters") => nbuf[t].par = 4
          /\ Returned(t, "GetNumVariables") => nbuf[t].var = 1
          /\ Returned(t, "GetFunctionName") =>
                NameRead(t) = FunctionName /\ spill[t] = << >>
          /\ \A l \in Locs(t) : l[1] = t
    /\ \A t \in Threads : \A u \in Threads \ {t} : Locs(t) \cap Locs(u) = {}

C6_Witness ==
    \E t \in Threads : \E u \in Threads \ {t} :
        /\ Returned(t, "GetFunctionValue")
        /\ ybuf[t] = GaussianCDF(X0(t), Amp(t), Mu(t), Sigma(t), Offset(t))
        /\ pc[u] = "GetFunctionValueErf"
        /\ tmp[u] # tmp[t]
        /\ tmp[u] # Garbage
        /\ tmp[t] # Garbage

\* C7 as claimed: a call of GetFunctionName on a buffer too small for the
\* string and its terminator ends with the error BufferTooSmall reported,
\* with nothing stored behind the end of the buffer.
C7_SmallBufferIsRejected ==
    \A t \in Threads :
        (/\ lastOp[t] = "GetFunctionName"
         /\ pc[t] \in {"idle", "fault"}
         /\ Len(nameBuf[t]) < Len(FunctionName) + 1) =>
            /\ pc[t] = "idle"
            /\ Status(t) = "BufferTooSmall"
            /\ spill[t] = << >>
            /\ \A l \in Locs(t) : l[2] = "name" => l[3] <= Len(nameBuf[t])

\* C8 as claimed: a call of GetFunctionValue with an x of length other than 1
\* or an a of length other than 4 ends with the error ArityMismatch reported
\* and has read no element outside x and a.
C8_ArityIsChecked ==
    \A t \in Threads :
        (/\ lastOp[t] = "GetFunctionValue"
         /\ pc[t] \in {"idle", "fault"}
         /\ (Len(xbuf[t]) # 1 \/ Len(abuf[t]) # 4)) =>
            /\ pc[t] = "idle"
            /\ Status(t) = "ArityMismatch"
            /\ \A i \in ReadIdx(t, "x") : i < Len(xbuf[t])
            /\ \A i \in ReadIdx(t, "a") : i < Len(abuf[t])

\* C9: when x and a have exactly the lengths that GetNumVariables and
\* GetNumParameters reported, GetFunctionValue reads x and a only at indices
\* below those counts, does not fault, and by its return has read every
\* index below them.
DeclaredAlloc(t) ==
    /\ told[t] = {"par", "var"}
    /\ Len(xbuf[t]) = nbuf[t].var
    /\ Len(abuf[t]) = nbuf[t].par

C9_DeclaredArityIsUsedArity ==
    \A t \in Threads :
        (lastOp[t] = "GetFunctionValue" /\ DeclaredAlloc(t)) =>
            /\ pc[t] # "fault"
            /\ \A i \in ReadIdx(t, "x") : i < nbuf[t].var /\ i < Len(xbuf[t])
            /\ \A i \in ReadIdx(t, "a") : i < nbuf[t].par /\ i < Len(abuf[t])
            /\ pc[t] = "idle" =>
                  /\ ReadIdx(t, "x") = 0..0
                  /\ ReadIdx(t, "a") = 0..3

C9_Witness ==
    \E t \in Threads :
        /\ Returned(t, "GetFunctionValue")
        /\ DeclaredAlloc(t)
        /\ ReadIdx(t, "a") = 0..3
        /\ ybuf[t] = Fin(FALSE, 2 * Scale)

\* What a step of thread t's call may change: nothing of another thread's,
\* and of its own only the output location of the entry point.
FrameOthers(t) ==
    \A u \in Threads \ {t} :
        /\ xbuf'[u] = xbuf[u]
        /\ abuf'[u] = abuf[u]
        /\ ybuf'[u] = ybuf[u]
        /\ nbuf'[u] = nbuf[u]
        /\ nameBuf'[u] = nameBuf[u]
        /\ spill'[u] = spill[u]

FrameValue(t) ==
    lastOp[t] = "GetFunctionValue" =>
        /\ UNCHANGED << nbuf, nameBuf, spill >>
        /\ yarg[t] = "y" => UNCHANGED << xbuf, abuf >>
        /\ yarg[t] = "x" => UNCHANGED << abuf, ybuf >> /\ Tail(xbuf'[t]) = Tail(xbuf[t])
        /\ yarg[t] = "a" => UNCHANGED << xbuf, ybuf >>
                             /\ SubSeq(abuf'[t], 1, 3) = SubSeq(abuf[t], 1, 3)
                             /\ SubSeq(abuf'[t], 5, Len(abuf[t])) = SubSeq(abuf[t], 5, Len(abuf[t]))

FrameCounts(t) ==
    /\ lastOp[t] = "GetNumParameters" =>
          UNCHANGED << xbuf, abuf, ybuf, nameBuf, spill >> /\ nbuf'[t].var = nbuf[t].var
    /\ lastOp[t] = "GetNumVariables" =>
          UNCHANGED << xbuf, abuf, ybuf, nameBuf, spill >> /\ nbuf'[t].par = nbuf[t].par

FrameName(t) ==
    lastOp[t] = "GetFunctionName" =>
        UNCHANGED << xbuf, abuf, ybuf, nbuf, spill >> /\ Len(nameBuf'[t]) = Len(nameBuf[t])

CallStep(t) == InCall(t) /\ pc'[t] # pc[t]

\* C10 as claimed: every step of a call changes only the call's own output
\* location: *y for GetFunctionValue, *n for the two counts, the caller's
\* name buffer for GetFunctionName.
C10_OnlyOwnOutput ==
    [][\A t \in Threads :
          CallStep(t) => FrameOthers(t) /\ FrameValue(t) /\ FrameCounts(t) /\ FrameName(t)]_vars

\* The part of C10 that does not rest on the capacity of the name buffer.
FrameButName ==
    [][\A t \in Threads :
          CallStep(t) => FrameOthers(t) /\ FrameValue(t) /\ FrameCounts(t)]_vars

\* C10 for a name buffer with room for all that strcpy_s stores.
FrameGivenRoom ==
    [][\A t \in Threads :
          (CallStep(t) /\ Len(nameBuf[t]) >= NameBufSize) => FrameName(t)]_vars

====
